---------------------------- MODULE Spec2Model ----------------------------
(***************************************************************************)
(* A model of the response-normalisation code of github_mcp_example.py:   *)
(* extract_repos_from_response (the envelope unwrapper) and the two       *)
(* content decoders, extract_file_content and the decoder inlined in      *)
(* get_readme_content, together with the library conversions they call    *)
(* (json.loads, json.dumps, base64.b64decode, bytes.decode, re.search,     *)
(* str.replace, str.strip, and the markup rendering of console.print).     *)
(*                                                                         *)
(* A Python str is a sequence of code points (integers), a bytes object a  *)
(* sequence of integers 0..255.  A Python value is a tagged tuple:         *)
(*   <<"none">>  <<"bool", b>>  <<"int", n>>  <<"str", s>>                 *)
(*   <<"list", <<v1, ..., vn>> >>                                          *)
(*   <<"dict", << <<k1, v1>>, ..., <<kn, vn>> >> >>   (insertion order)    *)
(* A call that may raise yields <<"ok", v>> or <<"exc", kind>>.            *)
(***************************************************************************)
EXTENDS Integers, Sequences, FiniteSets, TLC

(***************************************************************************)
(* String literals: S("abc") is the code point sequence of "abc".          *)
(***************************************************************************)
AsciiLow == " !\"#$%&'()*+,-./0123456789:;<=>?@ABCDEFGHIJKLMNOPQRSTUVWXYZ[\\]^_"

AsciiHigh == "abcdefghijklmnopqrstuvwxyz{|}~"

Ord(c) ==
    IF c = "\n" THEN 10
    ELSE IF c = "\t" THEN 9
    ELSE IF c = "\r" THEN 13
    ELSE IF \E i \in 1..Len(AsciiLow) : SubSeq(AsciiLow, i, i) = c
         THEN 31 + (CHOOSE i \in 1..Len(AsciiLow) : SubSeq(AsciiLow, i, i) = c)
         ELSE 96 + (CHOOSE i \in 1..Len(AsciiHigh) : SubSeq(AsciiHigh, i, i) = c)

S(lit) == [i \in 1..Len(lit) |-> Ord(SubSeq(lit, i, i))]

(***************************************************************************)
(* Python values.                                                          *)
(***************************************************************************)
PyNone == <<"none">>

PyBool(b) == <<"bool", b>>

PyInt(n) == <<"int", n>>

PyStr(s) == <<"str", s>>

PyList(xs) == <<"list", xs>>

PyDict(kvs) == <<"dict", kvs>>

IsStr(v) == v[1] = "str"

IsList(v) == v[1] = "list"

IsDict(v) == v[1] = "dict"

Ok(v) == <<"ok", v>>

Exc(kind) == <<"exc", kind>>

IsOk(r) == r[1] = "ok"

\* `key in d` for a dict d
HasKey(d, key) == \E i \in 1..Len(d[2]) : d[2][i][1] = key

\* d[key] for a dict d that has the key
Get(d, key) == d[2][CHOOSE i \in 1..Len(d[2]) : d[2][i][1] = key][2]

\* s[:n] of a Python list
Slice(xs, n) == SubSeq(xs, 1, IF Len(xs) < n THEN Len(xs) ELSE n)

\* the least of a set of positions, or `none` when the set is empty
FirstOf(positions, none) ==
    IF positions = {} THEN none
    ELSE CHOOSE x \in positions : \A y \in positions : x <= y

\* Python truthiness: `if x:` / `not x`
Truthy(v) ==
    CASE v[1] = "none" -> FALSE
      [] v[1] = "bool" -> v[2]
      [] v[1] = "int"  -> v[2] # 0
      [] OTHER         -> Len(v[2]) > 0

(***************************************************************************)
(* bytes.decode("utf-8") and str.encode("utf-8"), strict.                  *)
(***************************************************************************)
IsCont(b) == b >= 128 /\ b <= 191

\* The number of bytes of the well-formed UTF-8 sequence starting at bs[i],
\* or 0 when none starts there (invalid lead byte, truncated or ill-formed
\* continuation, overlong form, surrogate, above U+10FFFF).
Utf8SeqLen(bs, i) ==
    LET b == bs[i]
        n == Len(bs)
        c1 == IF i + 1 <= n THEN bs[i + 1] ELSE 0
        c2 == IF i + 2 <= n THEN bs[i + 2] ELSE 0
        c3 == IF i + 3 <= n THEN bs[i + 3] ELSE 0
    IN  IF b < 128 THEN 1
        ELSE IF b >= 194 /\ b <= 223 THEN (IF IsCont(c1) THEN 2 ELSE 0)
        ELSE IF b = 224 THEN (IF c1 >= 160 /\ c1 <= 191 /\ IsCont(c2) THEN 3 ELSE 0)
        ELSE IF b = 237 THEN (IF c1 >= 128 /\ c1 <= 159 /\ IsCont(c2) THEN 3 ELSE 0)
        ELSE IF b >= 225 /\ b <= 239 THEN (IF IsCont(c1) /\ IsCont(c2) THEN 3 ELSE 0)
        ELSE IF b = 240
             THEN (IF c1 >= 144 /\ c1 <= 191 /\ IsCont(c2) /\ IsCont(c3) THEN 4 ELSE 0)
        ELSE IF b >= 241 /\ b <= 243
             THEN (IF IsCont(c1) /\ IsCont(c2) /\ IsCont(c3) THEN 4 ELSE 0)
        ELSE IF b = 244
             THEN (IF c1 >= 128 /\ c1 <= 143 /\ IsCont(c2) /\ IsCont(c3) THEN 4 ELSE 0)
        ELSE 0

Utf8CodePoint(bs, i, k) ==
    CASE k = 1 -> bs[i]
      [] k = 2 -> (bs[i] - 192) * 64 + (bs[i + 1] - 128)
      [] k = 3 -> (bs[i] - 224) * 4096 + (bs[i + 1] - 128) * 64 + (bs[i + 2] - 128)
      [] k = 4 -> (bs[i] - 240) * 262144 + (bs[i + 1] - 128) * 4096
                  + (bs[i + 2] - 128) * 64 + (bs[i + 3] - 128)

RECURSIVE Utf8DecodeFrom(_, _, _)
Utf8DecodeFrom(bs, i, acc) ==
    IF i > Len(bs) THEN Ok(PyStr(acc))
    ELSE LET k == Utf8SeqLen(bs, i)
         IN  IF k = 0 THEN Exc("UnicodeDecodeError")
             ELSE Utf8DecodeFrom(bs, i + k, Append(acc, Utf8CodePoint(bs, i, k)))

\* bs.decode("utf-8")
utf8_decode(bs) == Utf8DecodeFrom(bs, 1, <<>>)

Utf8Bytes(cp) ==
    IF cp < 128 THEN <<cp>>
    ELSE IF cp < 2048 THEN <<192 + cp \div 64, 128 + (cp % 64)>>
    ELSE IF cp < 65536
         THEN <<224 + cp \div 4096, 128 + ((cp \div 64) % 64), 128 + (cp % 64)>>
    ELSE <<240 + cp \div 262144, 128 + ((cp \div 4096) % 64),
           128 + ((cp \div 64) % 64), 128 + (cp % 64)>>

RECURSIVE utf8_encode(_)
\* s.encode("utf-8") for a str without surrogates
utf8_encode(s) == IF s = <<>> THEN <<>> ELSE Utf8Bytes(Head(s)) \o utf8_encode(Tail(s))

(***************************************************************************)
(* base64: b64encode, and b64decode(s) with validate=False, which is       *)
(* binascii.a2b_base64 in non-strict mode: characters outside the          *)
(* alphabet are skipped, '=' ends the data once a quad is complete, and a   *)
(* dangling quad is "Incorrect padding".                                   *)
(***************************************************************************)
B64Char(v) ==
    IF v < 26 THEN 65 + v
    ELSE IF v < 52 THEN 97 + (v - 26)
    ELSE IF v < 62 THEN 48 + (v - 52)
    ELSE IF v = 62 THEN 43 ELSE 47

\* table_a2b_base64: the 6-bit value of a character, 64 for none
B64Value(c) ==
    IF c >= 65 /\ c <= 90 THEN c - 65
    ELSE IF c >= 97 /\ c <= 122 THEN c - 71
    ELSE IF c >= 48 /\ c <= 57 THEN c + 4
    ELSE IF c = 43 THEN 62
    ELSE IF c = 47 THEN 63
    ELSE 64

RECURSIVE B64EncodeFrom(_, _)
B64EncodeFrom(bs, i) ==
    LET n == Len(bs) - i + 1
    IN  IF n <= 0 THEN <<>>
        ELSE IF n = 1
             THEN <<B64Char(bs[i] \div 4), B64Char((bs[i] % 4) * 16), 61, 61>>
        ELSE IF n = 2
             THEN <<B64Char(bs[i] \div 4),
                    B64Char((bs[i] % 4) * 16 + bs[i + 1] \div 16),
                    B64Char((bs[i + 1] % 16) * 4), 61>>
        ELSE <<B64Char(bs[i] \div 4),
               B64Char((bs[i] % 4) * 16 + bs[i + 1] \div 16),
               B64Char((bs[i + 1] % 16) * 4 + bs[i + 2] \div 64),
               B64Char(bs[i + 2] % 64)>> \o B64EncodeFrom(bs, i + 3)

\* base64(s): the base64 text of the UTF-8 encoding of the text s
B64(s) == B64EncodeFrom(utf8_encode(s), 1)

RECURSIVE A2bFrom(_, _, _, _, _, _)
A2bFrom(s, i, quad_pos, leftchar, pads, out) ==
    IF i > Len(s)
    THEN IF quad_pos # 0 THEN Exc("binascii.Error") ELSE Ok(out)
    ELSE IF s[i] = 61
         THEN IF quad_pos >= 2 /\ quad_pos + pads + 1 >= 4
              THEN Ok(out)
              ELSE A2bFrom(s, i + 1, quad_pos, leftchar,
                           IF quad_pos >= 2 THEN pads + 1 ELSE pads, out)
    ELSE LET v == B64Value(s[i])
         IN  IF v >= 64 THEN A2bFrom(s, i + 1, quad_pos, leftchar, pads, out)
             ELSE CASE quad_pos = 0 -> A2bFrom(s, i + 1, 1, v, 0, out)
                    [] quad_pos = 1 ->
                         A2bFrom(s, i + 1, 2, v % 16, 0,
                                 Append(out, leftchar * 4 + v \div 16))
                    [] quad_pos = 2 ->
                         A2bFrom(s, i + 1, 3, v % 4, 0,
                                 Append(out, leftchar * 16 + v \div 4))
                    [] quad_pos = 3 ->
                         A2bFrom(s, i + 1, 0, 0, 0, Append(out, leftchar * 64 + v))

\* base64.b64decode(v): a bytes sequence, or the exception raised
b64decode(v) ==
    IF ~IsStr(v) THEN Exc("TypeError")
    ELSE IF \E i \in 1..Len(v[2]) : v[2][i] >= 128 THEN Exc("ValueError")
    ELSE A2bFrom(v[2], 1, 0, 0, 0, <<>>)

\* base64.b64decode(v).decode("utf-8")
b64decode_utf8(v) ==
    LET raw == b64decode(v)
    IN  IF IsOk(raw) THEN utf8_decode(raw[2]) ELSE raw

(***************************************************************************)
(* json.loads(text): the decoder of the json module.  A parse step yields  *)
(* <<"ok", value, next position>> or Exc("JSONDecodeError").  A number     *)
(* with a fraction or an exponent is kept as <<"float", lexeme>>.          *)
(***************************************************************************)
JsonErr == Exc("JSONDecodeError")

IsDigit(c) == c >= 48 /\ c <= 57

At(s, i) == IF i >= 1 /\ i <= Len(s) THEN s[i] ELSE -1

\* WHITESPACE.match(s, i).end()
SkipWs(s, i) ==
    IF i > Len(s) THEN i
    ELSE FirstOf({j \in i..Len(s) : s[j] \notin {32, 9, 10, 13}}, Len(s) + 1)

\* s[i:i+len(w)] == w
StartsWithAt(s, i, w) ==
    /\ i + Len(w) - 1 <= Len(s)
    /\ \A k \in 1..Len(w) : s[i + k - 1] = w[k]

HexVal(c) ==
    IF IsDigit(c) THEN c - 48
    ELSE IF c >= 97 /\ c <= 102 THEN c - 87
    ELSE IF c >= 65 /\ c <= 70 THEN c - 55
    ELSE -1

\* the value of the four hex digits s[i..i+3], or -1
Hex4(s, i) ==
    IF i + 3 <= Len(s) /\ \A k \in 0..3 : HexVal(s[i + k]) >= 0
    THEN HexVal(s[i]) * 4096 + HexVal(s[i + 1]) * 256 + HexVal(s[i + 2]) * 16
         + HexVal(s[i + 3])
    ELSE -1

SimpleEscape(c) ==
    CASE c = 34 -> 34      \* \"
      [] c = 92 -> 92      \* \\
      [] c = 47 -> 47      \* \/
      [] c = 98 -> 8       \* \b
      [] c = 102 -> 12     \* \f
      [] c = 110 -> 10     \* \n
      [] c = 114 -> 13     \* \r
      [] c = 116 -> 9      \* \t
      [] OTHER -> -1

RECURSIVE ScanString(_, _, _)
\* the escape whose backslash is s[i]; acc is the content decoded so far
ScanEscape(s, i, acc) ==
    LET e == At(s, i + 1)
        u == Hex4(s, i + 2)
        lo == IF StartsWithAt(s, i + 6, <<92, 117>>) THEN Hex4(s, i + 8) ELSE -1
    IN  IF e = -1 THEN JsonErr
        ELSE IF e = 117
        THEN IF u = -1 THEN JsonErr
             ELSE IF u >= 55296 /\ u <= 56319 /\ lo >= 56320 /\ lo <= 57343
             THEN ScanString(s, i + 12,
                             Append(acc, 65536 + (u - 55296) * 1024 + (lo - 56320)))
             ELSE ScanString(s, i + 6, Append(acc, u))
        ELSE IF SimpleEscape(e) = -1 THEN JsonErr
        ELSE ScanString(s, i + 2, Append(acc, SimpleEscape(e)))

\* scanstring, strict: i0 is the position after the opening quote or after
\* the last escape; acc0 is the content decoded so far
ScanString(s, i0, acc0) ==
    LET i == IF i0 > Len(s) THEN i0
             ELSE FirstOf({j \in i0..Len(s) : s[j] \in {34, 92} \/ s[j] < 32},
                          Len(s) + 1)
        c == At(s, i)
    IN  IF c = -1 THEN JsonErr                           \* unterminated string
        ELSE IF c = 34 THEN <<"ok", PyStr(acc0 \o SubSeq(s, i0, i - 1)), i + 1>>
        ELSE IF c < 32 THEN JsonErr                      \* invalid control character
        ELSE ScanEscape(s, i, acc0 \o SubSeq(s, i0, i - 1))

\* the position after the run of digits starting at i
DigitsEnd(s, i) ==
    IF i > Len(s) THEN i ELSE FirstOf({j \in i..Len(s) : ~IsDigit(s[j])}, Len(s) + 1)

RECURSIVE DecimalValue(_, _, _, _)
DecimalValue(s, i, j, acc) ==
    IF i >= j THEN acc ELSE DecimalValue(s, i + 1, j, acc * 10 + (s[i] - 48))

\* the end of (\.\d+)? matched at intEnd
FracEnd(s, intEnd) ==
    IF At(s, intEnd) = 46 /\ IsDigit(At(s, intEnd + 1)) THEN DigitsEnd(s, intEnd + 1)
    ELSE intEnd

\* the end of ([eE][-+]?\d+)? matched at fracEnd
ExpEnd(s, fracEnd) ==
    LET expDigits == IF At(s, fracEnd + 1) \in {43, 45} THEN fracEnd + 2
                     ELSE fracEnd + 1
    IN  IF At(s, fracEnd) \in {101, 69} /\ IsDigit(At(s, expDigits))
        THEN DigitsEnd(s, expDigits)
        ELSE fracEnd

\* NUMBER_RE = (-?(?:0|[1-9]\d*))(\.\d+)?([eE][-+]?\d+)? matched at i
ScanNumber(s, i) ==
    LET d == IF At(s, i) = 45 THEN i + 1 ELSE i
        intEnd == IF At(s, d) = 48 THEN d + 1 ELSE DigitsEnd(s, d)
        expEnd == ExpEnd(s, FracEnd(s, intEnd))
    IN  IF intEnd = d THEN JsonErr
        ELSE IF expEnd = intEnd
        THEN <<"ok", PyInt((IF d > i THEN -1 ELSE 1) * DecimalValue(s, d, intEnd, 0)),
               intEnd>>
        ELSE <<"ok", <<"float", SubSeq(s, i, expEnd - 1)>>, expEnd>>

\* d[key] = value on an insertion-ordered dict
DictSet(kvs, key, value) ==
    IF \E i \in 1..Len(kvs) : kvs[i][1] = key
    THEN [i \in 1..Len(kvs) |-> IF kvs[i][1] = key THEN <<key, value>> ELSE kvs[i]]
    ELSE Append(kvs, <<key, value>>)

RECURSIVE ScanOnce(_, _), ScanArray(_, _, _), ScanObject(_, _, _)
\* scan_once(s, i)
ScanOnce(s, i) ==
    LET c == At(s, i)
        j == SkipWs(s, i + 1)
    IN  IF c = 34 THEN ScanString(s, i + 1, <<>>)
        ELSE IF c = 123
        THEN (IF At(s, j) = 125 THEN <<"ok", PyDict(<<>>), j + 1>>
              ELSE ScanObject(s, j, <<>>))
        ELSE IF c = 91
        THEN (IF At(s, j) = 93 THEN <<"ok", PyList(<<>>), j + 1>>
              ELSE ScanArray(s, j, <<>>))
        ELSE IF StartsWithAt(s, i, <<110, 117, 108, 108>>) THEN <<"ok", PyNone, i + 4>>
        ELSE IF StartsWithAt(s, i, <<116, 114, 117, 101>>)
        THEN <<"ok", PyBool(TRUE), i + 4>>
        ELSE IF StartsWithAt(s, i, <<102, 97, 108, 115, 101>>)
        THEN <<"ok", PyBool(FALSE), i + 5>>
        ELSE IF StartsWithAt(s, i, <<78, 97, 78>>)
        THEN <<"ok", <<"float", SubSeq(s, i, i + 2)>>, i + 3>>            \* NaN
        ELSE IF StartsWithAt(s, i, <<73, 110, 102, 105, 110, 105, 116, 121>>)
        THEN <<"ok", <<"float", SubSeq(s, i, i + 7)>>, i + 8>>            \* Infinity
        ELSE IF StartsWithAt(s, i, <<45, 73, 110, 102, 105, 110, 105, 116, 121>>)
        THEN <<"ok", <<"float", SubSeq(s, i, i + 8)>>, i + 9>>            \* -Infinity
        ELSE IF c = 45 \/ IsDigit(c) THEN ScanNumber(s, i)
        ELSE JsonErr

\* the elements of an array; i is at the start of the next element
ScanArray(s, i, acc) ==
    LET r == ScanOnce(s, i)
        j == SkipWs(s, r[3])
    IN  IF ~IsOk(r) THEN r
        ELSE IF At(s, j) = 93 THEN <<"ok", PyList(Append(acc, r[2])), j + 1>>
        ELSE IF At(s, j) = 44 THEN ScanArray(s, SkipWs(s, j + 1), Append(acc, r[2]))
        ELSE JsonErr

\* the member whose key was scanned as k, of an object with the members acc
ScanObjectKey(s, acc, k) ==
    LET c == SkipWs(s, k[3])
        r == ScanOnce(s, SkipWs(s, c + 1))
        j == SkipWs(s, r[3])
    IN  IF ~IsOk(k) THEN k
        ELSE IF At(s, c) # 58 THEN JsonErr
        ELSE IF ~IsOk(r) THEN r
        ELSE IF At(s, j) = 125
        THEN <<"ok", PyDict(DictSet(acc, k[2][2], r[2])), j + 1>>
        ELSE IF At(s, j) = 44
        THEN ScanObject(s, SkipWs(s, j + 1), DictSet(acc, k[2][2], r[2]))
        ELSE JsonErr

\* the members of an object; i is at the opening quote of the next key
ScanObject(s, i, acc) ==
    IF At(s, i) # 34 THEN JsonErr ELSE ScanObjectKey(s, acc, ScanString(s, i + 1, <<>>))

\* the document r scanned from the text s
LoadsEnd(s, r) ==
    IF ~IsOk(r) THEN r
    ELSE IF SkipWs(s, r[3]) # Len(s) + 1 THEN JsonErr   \* extra data
    ELSE Ok(r[2])

\* json.loads(v)
json_loads(v) ==
    IF ~IsStr(v) THEN Exc("TypeError")
    ELSE IF At(v[2], 1) = 65279 THEN JsonErr          \* UTF-8 BOM
    ELSE LoadsEnd(v[2], ScanOnce(v[2], SkipWs(v[2], 1)))

(***************************************************************************)
(* json.dumps(v) and json.dumps(v, indent=2), ensure_ascii=True.           *)
(***************************************************************************)
RECURSIVE NatDigits(_)
NatDigits(n) == IF n < 10 THEN <<48 + n>> ELSE Append(NatDigits(n \div 10), 48 + (n % 10))

HexDigit(d) == IF d < 10 THEN 48 + d ELSE 87 + d

\* \uXXXX
UEscape(u) ==
    <<92, 117, HexDigit(u \div 4096), HexDigit((u \div 256) % 16),
      HexDigit((u \div 16) % 16), HexDigit(u % 16)>>

EscapeChar(c) ==
    CASE c = 34 -> <<92, 34>>
      [] c = 92 -> <<92, 92>>
      [] c = 10 -> <<92, 110>>
      [] c = 13 -> <<92, 114>>
      [] c = 9 -> <<92, 116>>
      [] c = 8 -> <<92, 98>>
      [] c = 12 -> <<92, 102>>
      [] OTHER -> IF c >= 32 /\ c <= 126 THEN <<c>>
                  ELSE IF c < 65536 THEN UEscape(c)
                  ELSE UEscape(55296 + ((c - 65536) \div 1024))
                       \o UEscape(56320 + ((c - 65536) % 1024))

RECURSIVE EscapeChars(_)
\* the escaped characters of s, concatenated (by halves)
EscapeChars(s) ==
    IF s = <<>> THEN <<>>
    ELSE IF Len(s) = 1 THEN EscapeChar(s[1])
    ELSE EscapeChars(SubSeq(s, 1, Len(s) \div 2))
         \o EscapeChars(SubSeq(s, Len(s) \div 2 + 1, Len(s)))

\* encode_basestring_ascii
QuotedText(s) == <<34>> \o EscapeChars(s) \o <<34>>

RECURSIVE Spaces(_)
Spaces(n) == IF n <= 0 THEN <<>> ELSE <<32>> \o Spaces(n - 1)

RECURSIVE DumpsAt(_, _, _), DumpsItems(_, _, _, _, _)
\* the text of v at nesting depth `level`; indent < 0 stands for indent=None
DumpsAt(v, indent, level) ==
    CASE v[1] = "none" -> <<110, 117, 108, 108>>
      [] v[1] = "bool" -> IF v[2] THEN <<116, 114, 117, 101>>
                          ELSE <<102, 97, 108, 115, 101>>
      [] v[1] = "int" -> IF v[2] < 0 THEN <<45>> \o NatDigits(-v[2]) ELSE NatDigits(v[2])
      [] v[1] = "float" -> v[2]
      [] v[1] = "str" -> QuotedText(v[2])
      [] v[1] = "list" ->
           IF v[2] = <<>> THEN <<91, 93>>
           ELSE <<91>> \o DumpsItems(v[2], 1, FALSE, indent, level + 1)
                \o (IF indent < 0 THEN <<>> ELSE <<10>> \o Spaces(indent * level))
                \o <<93>>
      [] v[1] = "dict" ->
           IF v[2] = <<>> THEN <<123, 125>>
           ELSE <<123>> \o DumpsItems(v[2], 1, TRUE, indent, level + 1)
                \o (IF indent < 0 THEN <<>> ELSE <<10>> \o Spaces(indent * level))
                \o <<125>>

\* the items xs[i..] of a list, or the members of a dict (keyed)
DumpsItems(xs, i, keyed, indent, level) ==
    IF i > Len(xs) THEN <<>>
    ELSE (IF indent < 0 THEN (IF i > 1 THEN <<44, 32>> ELSE <<>>)
          ELSE (IF i > 1 THEN <<44>> ELSE <<>>) \o <<10>> \o Spaces(indent * level))
         \o (IF keyed
             THEN QuotedText(xs[i][1]) \o <<58, 32>> \o DumpsAt(xs[i][2], indent, level)
             ELSE DumpsAt(xs[i], indent, level))
         \o DumpsItems(xs, i + 1, keyed, indent, level)

\* json.dumps(v)
json_dumps(v) == DumpsAt(v, -1, 0)

\* json.dumps(v, indent=2)
json_dumps_indent2(v) == DumpsAt(v, 2, 0)

(***************************************************************************)
(* str methods and the regular expression of the pattern strategy.         *)
(***************************************************************************)
\* str.isspace of one character; also the class \s of a str pattern
IsSpace(c) ==
    \/ c >= 9 /\ c <= 13
    \/ c >= 28 /\ c <= 32
    \/ c \in {133, 160, 5760, 8232, 8233, 8239, 8287, 12288}
    \/ c >= 8192 /\ c <= 8202

RECURSIVE RemoveAllFrom(_, _, _)
\* s[i..] without the occurrences of pat, found left to right
RemoveAllFrom(s, pat, i) ==
    LET hit == FirstOf({j \in i..Len(s) : StartsWithAt(s, j, pat)}, 0)
    IN  IF hit = 0 THEN SubSeq(s, i, Len(s))
        ELSE SubSeq(s, i, hit - 1) \o RemoveAllFrom(s, pat, hit + Len(pat))

\* s.replace(pat, "") for a non-empty pat
str_remove(s, pat) == RemoveAllFrom(s, pat, 1)

\* the position after the run of whitespace starting at i
SkipSpace(s, i) ==
    IF i > Len(s) THEN i ELSE FirstOf({j \in i..Len(s) : ~IsSpace(s[j])}, Len(s) + 1)

\* s.strip()
str_strip(s) ==
    SubSeq(s, SkipSpace(s, 1),
           Len(s) + 1 - FirstOf({k \in 1..Len(s) : ~IsSpace(s[Len(s) + 1 - k])},
                                Len(s) + 1))

\* `sub in s`
str_contains(s, sub) == \E i \in 1..Len(s) : StartsWithAt(s, i, sub)

\* "([^"]+)" matched at position q: <<start, end>> of the group, or <<>>
ContentMatchQuote(s, q) ==
    LET e == IF q + 1 > Len(s) THEN q + 1
             ELSE FirstOf({j \in (q + 1)..Len(s) : s[j] = 34}, Len(s) + 1)
    IN  IF At(s, q) = 34 /\ e > q + 1 /\ At(s, e) = 34 THEN <<q + 1, e>> ELSE <<>>

\* "content"\s*:\s*"([^"]+)" matched at position p: <<start, end>> of group 1
\* (end exclusive), or <<>> when the pattern does not match there
ContentMatchAt(s, p) ==
    LET c == SkipSpace(s, p + 9)
    IN  IF StartsWithAt(s, p, <<34, 99, 111, 110, 116, 101, 110, 116, 34>>)
           /\ At(s, c) = 58
        THEN ContentMatchQuote(s, SkipSpace(s, c + 1))
        ELSE <<>>

\* re.search(r'"content"\s*:\s*"([^"]+)"', v): Ok(group(1)) for the leftmost
\* match, Ok(PyNone) for no match, TypeError when v is not a str
re_search_content(v) ==
    IF ~IsStr(v) THEN Exc("TypeError")
    ELSE LET hits == {p \in 1..Len(v[2]) : ContentMatchAt(v[2], p) # <<>>}
             g == ContentMatchAt(v[2], FirstOf(hits, 0))
         IN  IF hits = {} THEN Ok(PyNone)
             ELSE Ok(PyStr(SubSeq(v[2], g[1], g[2] - 1)))

(***************************************************************************)
(* console.print(text) of rich, with markup enabled (the default): the     *)
(* text is parsed for [tag] ... [/tag] markup and a closing tag that       *)
(* closes nothing raises MarkupError.  Style.normalize is modelled as      *)
(* strip().lower(), which it is for every tag name that is not a style     *)
(* definition of several words or an alias.                                *)
(***************************************************************************)
IsTagStart(c) == (c >= 97 /\ c <= 122) \/ c \in {35, 47, 64}

\* RE_TAGS at the bracket s[p]: the position of the closing ']', or 0
TagEnd(s, p) ==
    LET r == IF p + 2 > Len(s) THEN p + 2
             ELSE FirstOf({j \in (p + 2)..Len(s) : s[j] \in {91, 93}}, Len(s) + 1)
    IN  IF At(s, p) = 91 /\ IsTagStart(At(s, p + 1)) /\ At(s, r) = 93 THEN r ELSE 0

\* the first position >= p where a tag starts, or 0
NextTag(s, p) == FirstOf({j \in p..Len(s) : s[j] = 91 /\ TagEnd(s, j) > 0}, 0)

RECURSIVE BackslashRun(_, _, _)
\* the number of backslashes just before position p, not reaching below lo
BackslashRun(s, p, lo) ==
    IF p - 1 >= lo /\ s[p - 1] = 92 THEN 1 + BackslashRun(s, p - 1, lo) ELSE 0

\* tag_text.partition("=")[0]
BeforeEquals(s) == SubSeq(s, 1, FirstOf({j \in 1..Len(s) : s[j] = 61}, Len(s) + 1) - 1)

Lower(s) == [i \in 1..Len(s) |-> IF s[i] >= 65 /\ s[i] <= 90 THEN s[i] + 32 ELSE s[i]]

\* Style.normalize(name)
StyleNormalize(name) == Lower(str_strip(name))

\* pop_style: the stack without its topmost entry named `name`
RECURSIVE PopStyle(_, _)
PopStyle(stack, name) ==
    IF stack[Len(stack)] = name THEN SubSeq(stack, 1, Len(stack) - 1)
    ELSE Append(PopStyle(SubSeq(stack, 1, Len(stack) - 1), name), stack[Len(stack)])

RECURSIVE MarkupRaisesFrom(_, _, _)
\* the tag s[p..r] met while rendering from pos on
MarkupTag(s, pos, stack, p, r) ==
    LET name == BeforeEquals(SubSeq(s, p + 1, r - 1))
        style_name == str_strip(Tail(name))
    IN  IF BackslashRun(s, p, pos) % 2 = 1
        THEN MarkupRaisesFrom(s, r + 1, stack)                        \* escaped
        ELSE IF name[1] # 47
        THEN MarkupRaisesFrom(s, r + 1, Append(stack, StyleNormalize(name)))
        ELSE IF style_name # <<>>
        THEN (IF \E k \in 1..Len(stack) : stack[k] = StyleNormalize(style_name)
              THEN MarkupRaisesFrom(s, r + 1,
                                    PopStyle(stack, StyleNormalize(style_name)))
              ELSE TRUE)                        \* doesn't match any open tag
        ELSE IF stack = <<>> THEN TRUE          \* has nothing to close
        ELSE MarkupRaisesFrom(s, r + 1, SubSeq(stack, 1, Len(stack) - 1))

\* render(markup) raises MarkupError from position pos on, with the open
\* tags in `stack`
MarkupRaisesFrom(s, pos, stack) ==
    LET p == NextTag(s, pos)
    IN  IF p = 0 THEN FALSE ELSE MarkupTag(s, pos, stack, p, TagEnd(s, p))

\* console.print(text) raises MarkupError
console_print_raises(text) == MarkupRaisesFrom(text, 1, <<>>)

(***************************************************************************)
(* The envelope unwrapper: extract_repos_from_response.  A step of its     *)
(* content scan is <<"return", v>> when a return statement is reached,     *)
(* <<"next">> when the scan goes on, or the exception that escapes.        *)
(***************************************************************************)
KeyItems == S("items")

KeyRepositories == S("repositories")

KeyContent == S("content")

KeyData == S("data")

KeyText == S("text")

KeyFullName == S("full_name")

KeyResult == S("result")

\* all(isinstance(item, dict) and "full_name" in item for item in xs[:3])
LooksLikeRepos(xs) ==
    \A i \in 1..Len(Slice(xs, 3)) : IsDict(xs[i]) /\ HasKey(xs[i], KeyFullName)

\* `key in d and isinstance(d[key], list)`
HasListField(d, key) == HasKey(d, key) /\ IsList(Get(d, key))

\* A faulty variant of ReposFromParsed that never looks at `repositories`.
ReposFromParsedNoRepositories(data) ==
    IF IsDict(data)
    THEN IF HasListField(data, KeyItems) THEN <<"return", Get(data, KeyItems)>>
         ELSE IF HasListField(data, KeyData) THEN <<"return", Get(data, KeyData)>>
         ELSE <<"next">>
    ELSE IF IsList(data) /\ LooksLikeRepos(data[2]) THEN <<"return", data>>
    ELSE <<"next">>

\* the statements that follow data = json.loads(item["text"]) in the try block
ReposFromParsed(data) ==
    IF IsDict(data)
    THEN IF HasListField(data, KeyItems) THEN <<"return", Get(data, KeyItems)>>
         ELSE IF HasListField(data, KeyRepositories)
         THEN <<"return", Get(data, KeyRepositories)>>
         ELSE IF HasListField(data, KeyData) THEN <<"return", Get(data, KeyData)>>
         ELSE <<"next">>
    ELSE IF IsList(data) /\ LooksLikeRepos(data[2]) THEN <<"return", data>>
    ELSE <<"next">>

\* A faulty variant of ReposTry without the except clause: the exception of
\* json.loads escapes.
ReposTryUncaught(parsed) ==
    IF IsOk(parsed) THEN ReposFromParsed(parsed[2]) ELSE parsed

\* try: data = json.loads(...); ...  except: pass
ReposTry(parsed) ==
    IF IsOk(parsed) THEN ReposFromParsed(parsed[2]) ELSE <<"next">>

\* the body of the content loop for one item
ReposFromItem(item) ==
    IF IsDict(item) /\ HasKey(item, KeyText) THEN ReposTry(json_loads(Get(item, KeyText)))
    ELSE <<"next">>

RECURSIVE ReposFromContent(_, _)
\* A faulty variant of ReposAfterItem that ends the scan with the first item.
ReposAfterItemAbort(content, i, r) == r

\* the loop after the body has run for content[i] with step r
ReposAfterItem(content, i, r) ==
    IF r[1] = "next" THEN ReposFromContent(content, i + 1) ELSE r

\* for item in response_data["content"]: ...   (from the i-th item on)
ReposFromContent(content, i) ==
    IF i > Len(content) THEN <<"next">>
    ELSE ReposAfterItem(content, i, ReposFromItem(content[i]))

\* A faulty variant of ReposItems that returns response_data["items"][:1].
ReposItemsTruncated(response_data) == PyList(Slice(Get(response_data, KeyItems)[2], 1))

\* return response_data["items"]
ReposItems(response_data) == Get(response_data, KeyItems)

\* Format 3 and what follows it: the content scan ended with step r
ReposAfterContent(r) ==
    IF r[1] = "return" THEN Ok(r[2])
    ELSE IF r[1] = "exc" THEN r
    ELSE Ok(PyList(<<>>))                       \* return []

\* A faulty variant of ReposFromDict that looks at `repositories` before
\* `items`.
ReposFromDictRepositoriesFirst(response_data) ==
    IF HasListField(response_data, KeyRepositories)
    THEN Ok(Get(response_data, KeyRepositories))
    ELSE IF HasListField(response_data, KeyItems) THEN Ok(ReposItems(response_data))
    ELSE IF HasListField(response_data, KeyContent)
    THEN ReposAfterContent(ReposFromContent(Get(response_data, KeyContent)[2], 1))
    ELSE IF HasListField(response_data, KeyData) THEN Ok(Get(response_data, KeyData))
    ELSE Ok(PyList(<<>>))

\* the branch `elif isinstance(response_data, dict)`; Format 4 is the elif
\* of the Format 3 test
ReposFromDict(response_data) ==
    IF HasListField(response_data, KeyItems) THEN Ok(ReposItems(response_data))
    ELSE IF HasListField(response_data, KeyRepositories)
    THEN Ok(Get(response_data, KeyRepositories))
    ELSE IF HasListField(response_data, KeyContent)
    THEN ReposAfterContent(ReposFromContent(Get(response_data, KeyContent)[2], 1))
    ELSE IF HasListField(response_data, KeyData) THEN Ok(Get(response_data, KeyData))
    ELSE Ok(PyList(<<>>))

\* extract_repos_from_response(response_data): Ok(the value returned), or
\* the exception that leaves the function
extract_repos_from_response(response_data) ==
    IF IsList(response_data)
    THEN IF LooksLikeRepos(response_data[2]) THEN Ok(response_data)
         ELSE Ok(PyList(<<>>))
    ELSE IF IsDict(response_data) THEN ReposFromDict(response_data)
    ELSE Ok(PyList(<<>>))

(***************************************************************************)
(* The content decoder, first implementation: extract_file_content.        *)
(* The handlers' own console.print calls print a fixed library message     *)
(* that holds no '[' and cannot raise; the prints of the serialised        *)
(* result can.  A step of a loop is <<"break", text>> or <<"next">>.       *)
(***************************************************************************)
\* a loop whose body ended with step r for one item, `rest` being the value
\* the loop leaves when it goes on with the items that follow
LoopStep(r, rest) == IF r[1] = "break" THEN r[2] ELSE rest

\* the body of the regex loop for one item
FileRegexItem(item) ==
    LET content_match == re_search_content(Get(item, KeyText))
        decoded == b64decode_utf8(PyStr(str_remove(content_match[2][2], <<92, 110>>)))
    IN  IF ~(IsDict(item) /\ HasKey(item, KeyText)) THEN <<"next">>
        ELSE IF ~IsOk(content_match) THEN <<"next">>          \* except Exception
        ELSE IF content_match[2] = PyNone THEN <<"next">>
        ELSE IF IsOk(decoded) THEN <<"break", decoded[2]>>
        ELSE <<"next">>                                       \* except Exception

RECURSIVE FileRegexScan(_, _)
\* for item in result["content"]: ...; the value of file_content afterwards
FileRegexScan(content, i) ==
    IF i > Len(content) THEN PyNone
    ELSE LoopStep(FileRegexItem(content[i]), FileRegexScan(content, i + 1))

\* Format 1: direct content in result; the value of file_content afterwards
FileFormat1(result, file_content) ==
    LET decoded == b64decode_utf8(Get(result, KeyContent))
    IN  IF IsStr(Get(result, KeyContent))
        THEN (IF IsOk(decoded) THEN decoded[2]
              ELSE file_content)                              \* except Exception
        ELSE file_content

\* item["text"].replace("\n", "").replace("\\n", "").strip()
CleanText(text) ==
    IF ~IsStr(text) THEN Exc("AttributeError")
    ELSE Ok(PyStr(str_strip(str_remove(str_remove(text[2], <<10>>), <<92, 110>>))))

\* if isinstance(content_json, dict) and "content" in content_json: decode
DecodeContentJson(content_json) ==
    IF ~IsOk(content_json) THEN content_json
    ELSE IF IsDict(content_json[2]) /\ HasKey(content_json[2], KeyContent)
    THEN b64decode_utf8(Get(content_json[2], KeyContent))
    ELSE Ok(PyNone)

\* the try block of the per-item decoding: Ok(text) when the content is
\* assigned, Ok(PyNone) when the block ends without assigning, else the
\* exception raised in it
DecodeItemText(text) ==
    IF ~IsOk(CleanText(text)) THEN CleanText(text)
    ELSE DecodeContentJson(json_loads(CleanText(text)[2]))

\* the try block ended with r; the handler runs when it raised
FileFormat2Tried(text, r) ==
    LET again == json_loads(text)
    IN  IF IsOk(r) THEN (IF r[2] = PyNone THEN <<"next">> ELSE <<"break", r[2]>>)
        ELSE IF IsStr(text)
                /\ (StartsWithAt(text[2], 1, <<123>>) \/ StartsWithAt(text[2], 1, <<91>>))
        THEN (IF IsOk(again) THEN <<"break", PyStr(json_dumps_indent2(again[2]))>>
              ELSE <<"break", text>>)           \* except json.JSONDecodeError
        ELSE <<"next">>

\* the body of the Format 2 loop for one item
FileFormat2Item(item) ==
    IF IsDict(item) /\ HasKey(item, KeyText)
    THEN FileFormat2Tried(Get(item, KeyText), DecodeItemText(Get(item, KeyText)))
    ELSE <<"next">>

RECURSIVE FileFormat2(_, _, _)
\* Format 2: result is a list of content items
FileFormat2(items, i, file_content) ==
    IF i > Len(items) THEN file_content
    ELSE LoopStep(FileFormat2Item(items[i]), FileFormat2(items, i + 1, file_content))

\* if not file_content: Format 1 / elif Format 2
FileFallback(result, file_content) ==
    IF Truthy(file_content) THEN file_content
    ELSE IF IsDict(result) /\ HasKey(result, KeyContent)
    THEN FileFormat1(result, file_content)
    ELSE IF IsList(result) /\ Len(result[2]) > 0
    THEN FileFormat2(result[2], 1, file_content)
    ELSE file_content

\* the value of file_content when the strategies are done: the regex
\* approach, then the fallback
FileDecode(result) ==
    FileFallback(result,
                 IF IsDict(result) /\ HasListField(result, KeyContent)
                 THEN FileRegexScan(Get(result, KeyContent)[2], 1)
                 ELSE PyNone)

\* `"result" in r`
InResult(r) ==
    CASE IsDict(r) -> Ok(HasKey(r, KeyResult))
      [] IsList(r) -> Ok(\E i \in 1..Len(r[2]) : r[2][i] = PyStr(KeyResult))
      [] IsStr(r) -> Ok(str_contains(r[2], KeyResult))
      [] OTHER -> Exc("TypeError")

RECURSIVE FirstWithResult(_, _)
\* next((r for r in responses if "result" in r), None)
FirstWithResult(responses, i) ==
    IF i > Len(responses) THEN Ok(PyNone)
    ELSE IF ~IsOk(InResult(responses[i])) THEN InResult(responses[i])
    ELSE IF InResult(responses[i])[2] THEN Ok(responses[i])
    ELSE FirstWithResult(responses, i + 1)

\* json.dumps(result, indent=2)[:300]
RawResult(result) == Slice(json_dumps_indent2(result), 300)

\* if not file_content: console.print(...); return file_content
FileReport(result, file_content) ==
    IF ~Truthy(file_content) /\ console_print_raises(RawResult(result) \o S("..."))
    THEN Exc("MarkupError")
    ELSE Ok(file_content)

\* from `result = valid_file["result"]` on
FileContentOf(result) ==
    IF console_print_raises(S("[dim]Debug raw result: ") \o RawResult(result)
                            \o S("...[/]"))
    THEN Exc("MarkupError")
    ELSE FileReport(result, FileDecode(result))

\* extract_file_content(file_result): Ok(the value returned), or the
\* exception that leaves the function
extract_file_content(file_result) ==
    LET valid_file == FirstWithResult(file_result[2], 1)
    IN  IF ~Truthy(file_result) THEN Ok(PyNone)
        ELSE IF ~IsOk(valid_file) THEN valid_file
        ELSE IF ~Truthy(valid_file[2]) THEN Ok(PyNone)
        ELSE IF ~IsDict(valid_file[2]) THEN Exc("TypeError")
        ELSE FileContentOf(Get(valid_file[2], KeyResult))

(***************************************************************************)
(* The content decoder, second implementation: the one inlined in          *)
(* get_readme_content, which computes decoded_content and displays it.     *)
(***************************************************************************)
\* the body of the regex loop for one item
ReadmeRegexItem(item) ==
    LET content_match == re_search_content(Get(item, KeyText))
        decoded == b64decode_utf8(PyStr(str_remove(content_match[2][2], <<92, 110>>)))
    IN  IF ~(IsDict(item) /\ HasKey(item, KeyText)) THEN <<"next">>
        ELSE IF ~IsOk(content_match) THEN <<"next">>          \* except Exception
        ELSE IF content_match[2] = PyNone THEN <<"next">>
        ELSE IF IsOk(decoded) THEN <<"break", decoded[2]>>
        ELSE <<"next">>                                       \* except Exception

RECURSIVE ReadmeRegexScan(_, _)
\* for item in result["content"]: ...; the value of decoded_content afterwards
ReadmeRegexScan(content, i) ==
    IF i > Len(content) THEN PyNone
    ELSE LoopStep(ReadmeRegexItem(content[i]), ReadmeRegexScan(content, i + 1))

\* Format 1: direct content in result
ReadmeFormat1(result, decoded_content) ==
    LET decoded == b64decode_utf8(Get(result, KeyContent))
    IN  IF IsStr(Get(result, KeyContent))
        THEN (IF IsOk(decoded) THEN decoded[2]
              ELSE decoded_content)                           \* except Exception
        ELSE decoded_content

\* the try block ended with r; the handler only prints
ReadmeFormat2Tried(r) ==
    IF IsOk(r) /\ r[2] # PyNone THEN <<"break", r[2]>> ELSE <<"next">>

\* the body of the Format 2 loop for one item
ReadmeFormat2Item(item) ==
    IF IsDict(item) /\ HasKey(item, KeyText)
    THEN ReadmeFormat2Tried(DecodeItemText(Get(item, KeyText)))
    ELSE <<"next">>

RECURSIVE ReadmeFormat2(_, _, _)
\* Format 2: result is a list of content items
ReadmeFormat2(items, i, decoded_content) ==
    IF i > Len(items) THEN decoded_content
    ELSE LoopStep(ReadmeFormat2Item(items[i]),
                  ReadmeFormat2(items, i + 1, decoded_content))

\* the handler of the Format 3 try block:
\* if "# " in text or "## " in text: decoded_content = text; break
ReadmeFormat3Handler(text) ==
    IF IsStr(text)
       /\ (str_contains(text[2], <<35, 32>>) \/ str_contains(text[2], <<35, 35, 32>>))
    THEN <<"break", text>>
    ELSE <<"next">>

\* the Format 3 try block from content_json = json.loads(text) on
ReadmeFormat3Parsed(text, content_json) ==
    LET decoded == b64decode_utf8(Get(content_json[2], KeyContent))
    IN  IF ~IsOk(content_json) THEN ReadmeFormat3Handler(text)
        ELSE IF IsDict(content_json[2]) /\ HasKey(content_json[2], KeyContent)
        THEN (IF IsOk(decoded) THEN <<"break", decoded[2]>>
              ELSE ReadmeFormat3Handler(text))
        ELSE IF IsStr(content_json[2]) THEN <<"break", content_json[2]>>
        ELSE <<"next">>

\* the body of the Format 3 loop for one item
ReadmeFormat3Item(item) ==
    IF ~(IsDict(item) /\ HasKey(item, KeyText)) THEN <<"next">>
    ELSE IF ~IsOk(CleanText(Get(item, KeyText)))
    THEN ReadmeFormat3Handler(Get(item, KeyText))
    ELSE ReadmeFormat3Parsed(Get(item, KeyText),
                             json_loads(CleanText(Get(item, KeyText))[2]))

RECURSIVE ReadmeFormat3(_, _, _)
\* Format 3: content array in result
ReadmeFormat3(items, i, decoded_content) ==
    IF i > Len(items) THEN decoded_content
    ELSE LoopStep(ReadmeFormat3Item(items[i]),
                  ReadmeFormat3(items, i + 1, decoded_content))

\* if not decoded_content: Format 1 / elif Format 2 / elif Format 3
ReadmeFallback(result, decoded_content) ==
    IF Truthy(decoded_content) THEN decoded_content
    ELSE IF IsDict(result) /\ HasKey(result, KeyContent)
    THEN ReadmeFormat1(result, decoded_content)
    ELSE IF IsList(result) /\ Len(result[2]) > 0
    THEN ReadmeFormat2(result[2], 1, decoded_content)
    ELSE IF IsDict(result) /\ HasListField(result, KeyContent)
    THEN ReadmeFormat3(Get(result, KeyContent)[2], 1, decoded_content)
    ELSE decoded_content

\* the value of decoded_content when the strategies are done: the regex
\* approach, then the fallback
ReadmeDecode(result) ==
    ReadmeFallback(result,
                   IF IsDict(result) /\ HasListField(result, KeyContent)
                   THEN ReadmeRegexScan(Get(result, KeyContent)[2], 1)
                   ELSE PyNone)

\* decoded_content[:800] + "..." if len(decoded_content) > 800 else decoded_content
ReadmePreview(text) == IF Len(text) > 800 THEN SubSeq(text, 1, 800) \o S("...") ELSE text

\* what get_readme_content does after decoding, the display of the content
\* or of the response when there is none: Ok(None) when it returns
ReadmeDisplay(result, decoded_content) ==
    IF console_print_raises(IF Truthy(decoded_content)
                            THEN ReadmePreview(decoded_content[2])
                            ELSE RawResult(result) \o S("..."))
    THEN Exc("MarkupError")
    ELSE Ok(PyNone)

\* the test the callers apply to the extracted content before displaying it:
\* `if file_content:`, `if api_doc_content:`, `if decoded_content:`
FoundByCaller(content) == Truthy(content)

(***************************************************************************)
(* The envelopes the extractors are applied to.                            *)
(***************************************************************************)
MaxRecords == 2

MaxItems == 2

MaxTextLen == 2

SeqsUpTo(elems, n) == UNION {[1..k -> elems] : k \in 0..n}

Rec(name) == PyDict(<< <<KeyFullName, PyStr(name)>> >>)

NoName == PyDict(<< <<S("id"), PyInt(1)>> >>)

\* record lists: every sequence of at most MaxRecords elements
RecordLists == {PyList(xs) : xs \in SeqsUpTo({Rec(S("a/b")), NoName, PyInt(5)}, MaxRecords)}

ItemsList == PyList(<<Rec(S("i/1")), Rec(S("i/2"))>>)

ReposList == PyList(<<Rec(S("r/1"))>>)

DataList == PyList(<<Rec(S("d/1"))>>)

NestedList == PyList(<<Rec(S("n/1")), NoName>>)

\* payload texts: every text of at most MaxTextLen characters, and three more
Texts ==
    SeqsUpTo({72, 35, 32, 233}, MaxTextLen) \cup {S("Hello"), S("# T\nB"), S("[/x]")}

\* the value of a field that a mapping does not have
Absent == <<"absent">>

\* a mapping with the given fields, in order, leaving out those set to Absent
Mapping(kvs) == PyDict(SelectSeq(kvs, LAMBDA kv : kv[2] # Absent))

TextItem(text) == PyDict(<< <<KeyText, text>> >>)

\* {"text": json.dumps(v)}
JsonItem(v) == TextItem(PyStr(json_dumps(v)))

ItemYieldsRepos == JsonItem(PyDict(<< <<KeyRepositories, NestedList>> >>))

ItemBadJson == TextItem(PyStr(S("{bad")))

ItemDecodable == JsonItem(PyDict(<< <<KeyContent, PyStr(B64(S("Hi")))>> >>))

\* items whose text is a record document, is not JSON, is not a str, is a
\* content document, is a document without records
CoreItems ==
    {ItemYieldsRepos, ItemBadJson, TextItem(PyInt(5)), ItemDecodable,
     JsonItem(PyDict(<< <<S("x"), PyInt(1)>> >>))}

\* an item without text, a heading, markup, a content pattern inside text
\* that is no JSON, a content document with bad padding, record documents of
\* each shape, and an item that is no mapping
OtherItems ==
    {PyDict(<< <<S("type"), PyStr(S("text"))>> >>),
     TextItem(PyStr(S("# Title\nBody"))),
     TextItem(PyStr(S("[/x]"))),
     TextItem(PyStr(S("x \"content\":\"SGk=\""))),
     JsonItem(PyDict(<< <<KeyContent, PyStr(S("SGk"))>> >>)),
     JsonItem(NestedList),
     JsonItem(PyDict(<< <<KeyItems, PyInt(5)>>, <<KeyData, DataList>> >>)),
     JsonItem(PyDict(<< <<KeyItems, ItemsList>>, <<KeyRepositories, ReposList>> >>)),
     JsonItem(PyList(<<Rec(S("l/1"))>>)),
     PyInt(5)}

\* content sequences: every sequence of at most MaxItems core items, and each
\* other item alone, before and after a core item
ContentLists ==
    {PyList(xs) : xs \in SeqsUpTo(CoreItems, MaxItems)}
    \cup {PyList(<<x>>) : x \in OtherItems}
    \cup {PyList(<<x, y>>) : x \in OtherItems, y \in {ItemYieldsRepos, ItemDecodable}}
    \cup {PyList(<<y, x>>) : x \in OtherItems, y \in {ItemBadJson, ItemDecodable}}

\* mappings over the four recognised fields; mappings with `items`; mappings
\* with a content sequence, with and without `data`
RecordEnvelopes ==
    {Mapping(<< <<KeyItems, i>>, <<KeyRepositories, r>>, <<KeyContent, c>>, <<KeyData, d>> >>) :
        i \in {Absent, ItemsList, PyInt(5)},
        r \in {Absent, ReposList, PyNone},
        c \in {Absent, PyStr(B64(S("Hi"))), PyList(<<>>), PyList(<<ItemYieldsRepos>>),
               PyList(<<ItemBadJson>>)},
        d \in {Absent, DataList, PyStr(S("x"))}}
    \cup {Mapping(<< <<S("total_count"), n>>, <<KeyItems, xs>> >>) :
            n \in {Absent, PyInt(2)}, xs \in RecordLists}
    \cup {Mapping(<< <<KeyContent, c>>, <<KeyData, d>> >>) :
            c \in ContentLists, d \in {Absent, DataList}}

\* {"content": "<text>"}, with and without a further field, and
\* {"content": [{"text": json.dumps({"content": base64(s)})}, ...]}
TextEnvelopes ==
    {Mapping(<< <<KeyContent, PyStr(B64(s))>>, <<S("note"), n>> >>) :
        s \in Texts, n \in {Absent, PyStr(S("[/x]"))}}
    \cup {Mapping(<< <<KeyContent, c>> >>) :
            c \in {PyStr(S("SGk")), PyStr(S("/w==")), PyStr(<<233>>), PyInt(5), PyNone}}
    \cup {Mapping(<< <<KeyContent,
                       PyList(<<JsonItem(PyDict(<< <<KeyContent, PyStr(B64(s))>> >>))>>
                              \o more)>> >>) :
            s \in Texts, more \in {<<>>, <<TextItem(PyStr(S("[/x]")))>>}}

\* the mappings above, mappings without a recognised field, sequences, and
\* values that are neither
Envelopes ==
    RecordEnvelopes \cup TextEnvelopes
    \cup {Mapping(<< <<S("note"), n>> >>) : n \in {Absent, PyStr(S("x")), PyStr(S("[/x]"))}}
    \cup RecordLists \cup ContentLists
    \cup {PyNone, PyBool(TRUE), PyInt(5), PyStr(S("items"))}

(***************************************************************************)
(* The state machine: one envelope, and the three extractors applied to it *)
(* in any order, each once.  The variables of the demo run further below   *)
(* stay as they are.                                                       *)
(***************************************************************************)
VARIABLES
    envelope,          \* the `result` of the response under extraction
    repos_json,        \* the outcome of extract_repos_from_response(envelope)
    file_content,      \* the outcome of extract_file_content([{"result": envelope}])
    decoded_content,   \* decoded_content of get_readme_content, Ok(value)
    readme_shown,      \* the outcome of get_readme_content after decoding
    pc,                \* the position of the demo run
    args,              \* the command line flags that are set
    ran,               \* the demo functions called so far, in order
    requests,          \* the requests sent to the MCP server so far, in order
    stdout,            \* the `result` of the last command: return code, stdout, stderr
    responses,         \* the outcome of the last run_mcp_command
    report             \* what the demo reported about the last response

vars ==
    <<envelope, repos_json, file_content, decoded_content, readme_shown,
      pc, args, ran, requests, stdout, responses, report>>

\* the variables of the demo run
runVars == <<pc, args, ran, requests, stdout, responses, report>>

Pending == <<"pending">>

\* the response list run_mcp_command returns for one line {"result": envelope}
ResponseOf(e) == PyList(<<PyDict(<< <<KeyResult, e>> >>)>>)

Init ==
    /\ envelope \in Envelopes
    /\ repos_json = Pending
    /\ file_content = Pending
    /\ decoded_content = Pending
    /\ readme_shown = Pending
    /\ pc = Pending
    /\ args = {}
    /\ ran = <<>>
    /\ requests = <<>>
    /\ stdout = Pending
    /\ responses = Pending
    /\ report = Pending

ExtractRepos ==
    /\ repos_json = Pending
    /\ repos_json' = extract_repos_from_response(envelope)
    /\ UNCHANGED <<envelope, file_content, decoded_content, readme_shown, runVars>>

ExtractFileContent ==
    /\ file_content = Pending
    /\ file_content' = extract_file_content(ResponseOf(envelope))
    /\ UNCHANGED <<envelope, repos_json, decoded_content, readme_shown, runVars>>

GetReadmeContent ==
    /\ decoded_content = Pending
    /\ decoded_content' = Ok(ReadmeDecode(envelope))
    /\ readme_shown' = ReadmeDisplay(envelope, decoded_content'[2])
    /\ UNCHANGED <<envelope, repos_json, file_content, runVars>>

Next == ExtractRepos \/ ExtractFileContent \/ GetReadmeContent

Spec == Init /\ [][Next]_vars

(***************************************************************************)
(* The transport and the demos that use it: run_mcp_command turns the     *)
(* output of the server command into the list of responses, and           *)
(* list_org_repos and fetch_specific_repo_file pick the response to        *)
(* extract from.                                                           *)
(***************************************************************************)
RECURSIVE str_split_lines(_, _)
\* output.split("\n"), from position i on
str_split_lines(s, i) ==
    LET nl == FirstOf({j \in i..Len(s) : s[j] = 10}, 0)
    IN  IF nl = 0 THEN <<SubSeq(s, i, Len(s))>>
        ELSE <<SubSeq(s, i, nl - 1)>> \o str_split_lines(s, nl + 1)

RECURSIVE ParseLines(_, _)
\* the loop `for line in output.split("\n")`: the list `responses`
ParseLines(lines, i) ==
    IF i > Len(lines) THEN <<>>
    ELSE (IF str_strip(lines[i]) # <<>>
             /\ IsOk(json_loads(PyStr(str_strip(lines[i]))))
          THEN <<json_loads(PyStr(str_strip(lines[i])))[2]>>
          ELSE <<>>)                     \* blank, or except json.JSONDecodeError
         \o ParseLines(lines, i + 1)

\* run_mcp_command(method, params, show_raw_response=...) once subprocess.run
\* has returned result = <<returncode, stdout, stderr>>: Ok(the value
\* returned), or the exception that leaves the function
run_mcp_command(result, show_raw_response) ==
    LET output == str_strip(result[2])
        truncated == IF Len(output) > 500 THEN SubSeq(output, 1, 500) \o S("...")
                     ELSE output
    IN  IF result[1] # 0
        THEN (IF console_print_raises(S("[red]Error:[/] ") \o result[3])
              THEN Exc("MarkupError") ELSE Ok(PyNone))
        ELSE IF show_raw_response /\ console_print_raises(truncated)
        THEN Exc("MarkupError")
        ELSE Ok(PyList(ParseLines(str_split_lines(output, 1), 1)))

\* the bound on the number of lines of the server's output
MaxLines == 2

\* input: the lines the server writes
Lines ==
    { S(" "), S("log"), S("[/x]"), S("5"),
      json_dumps(PyDict(<< <<S("id"), PyInt(1)>> >>)),
      json_dumps(ResponseOf(PyDict(<< <<KeyItems, PyList(<<Rec(S("a/b"))>>)>> >>))[2][1]),
      json_dumps(ResponseOf(PyDict(<< <<KeyContent, PyStr(S("SGk="))>>,
                                      <<KeyItems, PyList(<<>>)>> >>))[2][1]) }

RECURSIVE JoinLines(_, _)
\* the lines from the i-th on, separated by newlines
JoinLines(ls, i) ==
    IF i > Len(ls) THEN <<>>
    ELSE ls[i] \o (IF i < Len(ls) THEN <<10>> ELSE <<>>) \o JoinLines(ls, i + 1)

\* input: what subprocess.run returns: <<returncode, stdout, stderr>>
Outputs ==
    {<<0, JoinLines(ls, 1), <<>>>> : ls \in SeqsUpTo(Lines, MaxLines)}
    \cup {<<1, <<>>, e>> : e \in {S("err"), S("[/x]")}}

\* input: what get_tools_list returns
ToolLists ==
    {PyNone} \cup
    {PyList([i \in 1..Len(ns) |-> PyDict(<< <<S("name"), PyStr(S(ns[i]))>> >>)]) :
        ns \in {<<"search_repositories">>, <<"get_file_contents">>,
                <<"get_file_contents", "search_repositories">>}}

\* next((t for t in tools_list if t["name"] == name), None) is not None
HasTool(tools_list, name) ==
    \E i \in 1..Len(tools_list[2]) : Get(tools_list[2][i], S("name")) = PyStr(S(name))

\* `if repos_result:` and `valid_repos = next(...)` down to
\* valid_repos["result"]: Ok(the result), the exception raised, or the branch
\* that reports
ValidResult(repos_result) ==
    LET valid_repos == FirstWithResult(repos_result[2][2], 1)
    IN  IF ~IsOk(repos_result) THEN repos_result
        ELSE IF ~Truthy(repos_result[2]) THEN <<"failed">>
        ELSE IF ~IsOk(valid_repos) THEN valid_repos
        ELSE IF ~Truthy(valid_repos[2]) THEN <<"invalid">>
        ELSE IF ~IsDict(valid_repos[2]) THEN Exc("TypeError")
        ELSE Ok(Get(valid_repos[2], KeyResult))

\* ReposReport with the alternative query placed in the branch of the
\* invalid response
ReposReportInvalidAsNone(valid, repos, shown) ==
    IF ~IsOk(valid) THEN (IF valid[1] = "exc" THEN "raised"
                          ELSE IF valid[1] = "invalid" THEN "none" ELSE valid[1])
    ELSE IF ~IsOk(repos) THEN "raised"
    ELSE IF Truthy(repos[2]) /\ Len(repos[2][2]) > 0
    THEN (IF \A i \in 1..Len(Slice(repos[2][2], shown)) : IsDict(repos[2][2][i])
          THEN "found" ELSE "raised")
    ELSE "none"

\* what list_org_repos and search_popular_repos do with the extracted
\* records: display the first `shown` of them, or report that there are none
\* (display_repo of a mapping is taken to return: the records of Lines hold
\* no markup)
ReposReport(valid, repos, shown) ==
    IF ~IsOk(valid) THEN (IF valid[1] = "exc" THEN "raised" ELSE valid[1])
    ELSE IF ~IsOk(repos) THEN "raised"
    ELSE IF Truthy(repos[2]) /\ Len(repos[2][2]) > 0
    THEN (IF \A i \in 1..Len(Slice(repos[2][2], shown)) : IsDict(repos[2][2][i])
          THEN "found" ELSE "raised")    \* display_repo: repo.get
    ELSE "none"

StarsQuery == "stars:>10000"
OrgQuery == "org:VectorInstitute"
AltQuery == "user:VectorInstitute"

InitRun ==
    /\ envelope = Pending
    /\ repos_json = Pending
    /\ file_content = Pending
    /\ decoded_content = Pending
    /\ readme_shown = Pending
    /\ pc = "start"
    /\ args = {}
    /\ ran = <<>>
    /\ requests = <<>>
    /\ stdout = Pending
    /\ responses = Pending
    /\ report = Pending

\* search_popular_repos, list_org_repos and get_specific_file up to the tool
\* lookup
FindTool ==
    /\ pc = "start"
    /\ \E demo \in {"search_popular_repos", "list_org_repos", "fetch_specific_repo_file"},
          tools_list \in ToolLists :
          /\ ran' = <<demo>>
          /\ pc' = IF Truthy(tools_list)
                      /\ HasTool(tools_list, IF demo = "fetch_specific_repo_file"
                                             THEN "get_file_contents"
                                             ELSE "search_repositories")
                   THEN demo ELSE "done"
          /\ report' = IF Truthy(tools_list) THEN Pending ELSE "no tools"
    /\ requests' = Append(requests, "tools/list")
    /\ UNCHANGED <<envelope, repos_json, file_content, decoded_content, readme_shown,
                   args, stdout, responses>>

\* search_popular_repos from the query on
SearchPopularRepos ==
    /\ pc = "search_popular_repos"
    /\ \E result \in Outputs :
          /\ stdout' = result
          /\ responses' = run_mcp_command(result, TRUE)
    /\ requests' = Append(requests, StarsQuery)
    /\ envelope' = IF IsOk(ValidResult(responses')) THEN ValidResult(responses')[2]
                   ELSE Pending
    /\ repos_json' = IF envelope' # Pending THEN extract_repos_from_response(envelope')
                     ELSE Pending
    /\ report' = ReposReport(ValidResult(responses'), repos_json', 3)
    /\ pc' = "done"
    /\ UNCHANGED <<file_content, decoded_content, readme_shown, args, ran>>

\* list_org_repos from the primary query to the display or the reports
ListOrgReposPrimary ==
    /\ pc = "list_org_repos"
    /\ \E result \in Outputs :
          /\ stdout' = result
          /\ responses' = run_mcp_command(result, TRUE)
    /\ requests' = Append(requests, OrgQuery)
    /\ envelope' = IF IsOk(ValidResult(responses')) THEN ValidResult(responses')[2]
                   ELSE Pending
    /\ repos_json' = IF envelope' # Pending THEN extract_repos_from_response(envelope')
                     ELSE Pending
    /\ report' = ReposReport(ValidResult(responses'), repos_json', 5)
    /\ pc' = IF report' = "none" THEN "alt" ELSE "done"
    /\ UNCHANGED <<file_content, decoded_content, readme_shown, args, ran>>

\* list_org_repos from the alternative query on
ListOrgReposAlt ==
    /\ pc = "alt"
    /\ \E result \in Outputs :
          /\ stdout' = result
          /\ responses' = run_mcp_command(result, FALSE)
    /\ requests' = Append(requests, AltQuery)
    /\ report' = <<"alt", ReposReport(ValidResult(responses'),
                                      IF IsOk(ValidResult(responses'))
                                      THEN extract_repos_from_response(ValidResult(responses')[2])
                                      ELSE Pending, 5)>>
    /\ pc' = "done"
    /\ UNCHANGED <<envelope, repos_json, file_content, decoded_content, readme_shown,
                   args, ran>>

\* fetch_specific_repo_file from the request for the file on
FetchSpecificRepoFile ==
    /\ pc = "fetch_specific_repo_file"
    /\ \E result \in Outputs :
          /\ stdout' = result
          /\ responses' = run_mcp_command(result, TRUE)
    /\ requests' = Append(requests, "get_file_contents")
    /\ file_content' = IF IsOk(responses') THEN extract_file_content(responses'[2])
                       ELSE responses'
    /\ report' = IF ~IsOk(file_content') THEN "raised"
                 ELSE IF FoundByCaller(file_content'[2]) THEN "found" ELSE "none"
    /\ pc' = "done"
    /\ UNCHANGED <<envelope, repos_json, decoded_content, readme_shown, args, ran>>

NextRun ==
    \/ FindTool
    \/ SearchPopularRepos
    \/ ListOrgReposPrimary
    \/ ListOrgReposAlt
    \/ FetchSpecificRepoFile

SpecRun == InitRun /\ [][NextRun]_vars

(***************************************************************************)
(* main: the flags of the command line decide which demos run.  A demo is  *)
(* its name and the request it starts with (every demo begins with         *)
(* get_tools_list); what it does with the responses is the subject of the  *)
(* specifications above.                                                   *)
(***************************************************************************)
\* the flags in the order main tests them, each with the function it calls
Flags ==
    << <<"--list_demos", "list_available_demos">>,
       <<"--display_tools", "display_available_tools">>,
       <<"--search_repos", "search_popular_repos">>,
       <<"--get_readme", "get_readme_content">>,
       <<"--list_org_repos", "list_org_repos">>,
       <<"--get_repo_file", "fetch_specific_repo_file">>,
       <<"--get_api_docs", "read_api_docs">>,
       <<"--run_all", "run_all_demos">> >>

InitMain ==
    /\ args \in SUBSET {Flags[i][1] : i \in 1..Len(Flags)}
    /\ pc = "main"
    /\ ran = <<>>
    /\ requests = <<>>
    /\ envelope = Pending
    /\ repos_json = Pending
    /\ file_content = Pending
    /\ decoded_content = Pending
    /\ readme_shown = Pending
    /\ stdout = Pending
    /\ responses = Pending
    /\ report = Pending

\* MainStart as the comment at the test describes it ("run all demos"):
\* every demo runs when no flag is set
MainStartRunsAll ==
    /\ pc = "main"
    /\ IF args = {}
       THEN /\ ran' = <<"run_all_demos">>
            /\ requests' = <<"tools/list">>
            /\ pc' = "returned"
       ELSE /\ pc' = Flags[1][1]
            /\ UNCHANGED <<ran, requests>>
    /\ UNCHANGED <<envelope, repos_json, file_content, decoded_content, readme_shown,
                   args, stdout, responses, report>>

\* main down to the test of any_flag_specified
MainStart ==
    /\ pc = "main"
    /\ IF args = {}
       THEN /\ ran' = <<"list_available_demos">>
            /\ pc' = "returned"
       ELSE /\ pc' = Flags[1][1]
            /\ UNCHANGED ran
    /\ UNCHANGED <<envelope, repos_json, file_content, decoded_content, readme_shown,
                   args, requests, stdout, responses, report>>

\* `if args.<flag>: <function>()` for the i-th flag but --run_all; a demo
\* returns, or an exception leaves it and main
MainFlag(i) ==
    /\ pc = Flags[i][1]
    /\ IF Flags[i][1] \notin args
       THEN /\ pc' = Flags[i + 1][1]
            /\ UNCHANGED <<ran, requests>>
       ELSE /\ ran' = Append(ran, Flags[i][2])
            /\ IF i = 1
               THEN /\ pc' = Flags[i + 1][1]
                    /\ UNCHANGED requests
               ELSE /\ requests' = Append(requests, "tools/list")
                    /\ pc' \in {Flags[i + 1][1], "raised"}
    /\ UNCHANGED <<envelope, repos_json, file_content, decoded_content, readme_shown,
                   args, stdout, responses, report>>

\* `if args.run_all: run_all_demos()`: the five demos in order when the tools
\* list was retrieved, as far as no exception leaves one of them
MainRunAll ==
    /\ pc = "--run_all"
    /\ IF "--run_all" \notin args
       THEN /\ pc' = "returned"
            /\ UNCHANGED <<ran, requests>>
       ELSE \E n \in 0..5 :
               /\ ran' = ran \o <<"run_all_demos">>
                             \o [k \in 1..n |-> Flags[k + 2][2]]
               /\ requests' = requests \o [k \in 1..(n + 1) |-> "tools/list"]
               /\ pc' \in (IF n = 0 THEN {"returned", "raised"}
                           ELSE IF n = 5 THEN {"returned"} ELSE {"raised"})
    /\ UNCHANGED <<envelope, repos_json, file_content, decoded_content, readme_shown,
                   args, stdout, responses, report>>

NextMain == MainStart \/ (\E i \in 1..7 : MainFlag(i)) \/ MainRunAll

SpecMain == InitMain /\ [][NextMain]_vars

(***************************************************************************)
(* Properties.  The terms of the design document are defined here from its *)
(* own words, apart from the operators of the extractors above.            *)
(***************************************************************************)
EmptyList == PyList(<<>>)

\* the `text` of a content item, or Absent when the item carries none
ItemTextOf(item) ==
    IF IsDict(item) /\ HasKey(item, KeyText) THEN Get(item, KeyText) ELSE Absent

\* the value the `text` of a content item parses to as JSON, or Absent
ParsedOf(item) ==
    IF ItemTextOf(item) # Absent /\ IsOk(json_loads(ItemTextOf(item)))
    THEN json_loads(ItemTextOf(item))[2]
    ELSE Absent

\* the record list a parsed value exposes: `items`, `repositories` or `data`
\* when it is a sequence, or the value itself when it is a sequence whose
\* first three elements are identifying mappings; Absent when there is none
ExposedRecords(v) ==
    IF IsDict(v)
    THEN IF HasListField(v, KeyItems) THEN Get(v, KeyItems)
         ELSE IF HasListField(v, KeyRepositories) THEN Get(v, KeyRepositories)
         ELSE IF HasListField(v, KeyData) THEN Get(v, KeyData)
         ELSE Absent
    ELSE IF IsList(v) /\ (\A i \in 1..Len(v[2]) : i <= 3 => IsDict(v[2][i])
                                                  /\ HasKey(v[2][i], KeyFullName))
    THEN v
    ELSE Absent

\* the item lacks `text`, or its text fails to parse, or exposes no record list
YieldsNothing(item) ==
    ParsedOf(item) = Absent \/ ExposedRecords(ParsedOf(item)) = Absent

\* steps 2 and 3 of the resolution order do not apply to the envelope
NoItemsNoRepositories ==
    /\ IsDict(envelope)
    /\ ~HasListField(envelope, KeyItems)
    /\ ~HasListField(envelope, KeyRepositories)

\* the content sequence step 4 scans, or the empty sequence when step 4 does
\* not apply
ScannedContent ==
    IF NoItemsNoRepositories /\ HasListField(envelope, KeyContent)
    THEN Get(envelope, KeyContent)[2]
    ELSE <<>>

\* the content sequence of a mapping envelope, or the empty sequence
ContentItems ==
    IF IsDict(envelope) /\ HasListField(envelope, KeyContent)
    THEN Get(envelope, KeyContent)[2]
    ELSE <<>>

\* both implementations of extract_text, once run, have returned v
TextIs(v) ==
    /\ file_content # Pending => file_content = Ok(v)
    /\ decoded_content # Pending => decoded_content = Ok(v)

\* C1: for a mapping envelope whose `items` field is a sequence,
\* extract_repos_from_response returns exactly that sequence (same elements,
\* same order, same length), whatever other fields the envelope carries.
C1_ItemsReturnedExactly ==
    (repos_json # Pending /\ IsDict(envelope) /\ HasListField(envelope, KeyItems))
        => repos_json = Ok(Get(envelope, KeyItems))

\* C1 witness: an `items` sequence of two records was returned from an
\* envelope that also carries `repositories`.
C1_Witness ==
    /\ IsDict(envelope) /\ HasListField(envelope, KeyItems)
    /\ HasListField(envelope, KeyRepositories)
    /\ Len(Get(envelope, KeyItems)[2]) >= 2
    /\ repos_json = Ok(Get(envelope, KeyItems))

C3_DirectRoundTrip ==
    \A s \in Texts :
        (/\ IsDict(envelope) /\ HasKey(envelope, KeyContent)
         /\ Get(envelope, KeyContent) = PyStr(B64(s)))
        => TextIs(PyStr(s))

\* C4 (as stated): for every non-empty text s, when the envelope is a mapping
\* whose `content` is a sequence whose first item carries `text` equal to the
\* JSON text of {"content": base64(s)}, both decoders return s.
C4_NestedContentDecoded ==
    \A s \in Texts \ {<<>>} :
        (/\ Len(ContentItems) >= 1
         /\ ContentItems[1] = JsonItem(PyDict(<< <<KeyContent, PyStr(B64(s))>> >>)))
        => TextIs(PyStr(s))

\* the text holds no "content":"..." pattern and parses as JSON neither as it
\* is nor with its newlines removed
NoPatternNoJson(text) ==
    /\ IsStr(text)
    /\ re_search_content(text) = Ok(PyNone)
    /\ ~IsOk(json_loads(text))
    /\ ~IsOk(json_loads(CleanText(text)[2]))

\* the text contains a heading marker, "# " or "## "
HasHeadingMarker(text) ==
    \E i \in 1..(Len(text[2]) - 1) : text[2][i] = 35 /\ text[2][i + 1] = 32

\* C5 (as stated): when the envelope is a mapping whose `content` is a
\* sequence of items whose `text` holds no base64 pattern and does not parse
\* as JSON, both decoders return verbatim the text of the first item that
\* contains a heading marker.
C5_HeadingFallback ==
    \A k \in 1..Len(ContentItems) :
        (/\ \A i \in 1..Len(ContentItems) : NoPatternNoJson(ItemTextOf(ContentItems[i]))
         /\ HasHeadingMarker(ItemTextOf(ContentItems[k]))
         /\ \A j \in 1..(k - 1) : ~HasHeadingMarker(ItemTextOf(ContentItems[j])))
        => TextIs(ItemTextOf(ContentItems[k]))

\* the text holds a "content":"..." pattern whose group decodes
PatternDecodes(text) ==
    /\ IsOk(re_search_content(text))
    /\ re_search_content(text)[2] # PyNone
    /\ IsOk(b64decode_utf8(PyStr(str_remove(re_search_content(text)[2][2], <<92, 110>>))))

\* the `text` of the item cannot be parsed or decoded: it is not a string, or
\* it is not valid JSON and holds no base64 pattern that decodes
Unparsable(item) ==
    /\ ItemTextOf(item) # Absent
    /\ \/ ~IsStr(ItemTextOf(item))
       \/ ~IsOk(json_loads(ItemTextOf(item))) /\ ~PatternDecodes(ItemTextOf(item))

\* C6 (as stated): for a mapping envelope whose `content` is a sequence of
\* items none of whose `text` values can be parsed or decoded, both decoders
\* end with the absent result and raise nothing to the caller.
C6_UnparsableIsAbsent ==
    (/\ IsDict(envelope) /\ HasListField(envelope, KeyContent)
     /\ \A i \in 1..Len(ContentItems) : Unparsable(ContentItems[i]))
    => TextIs(PyNone)

\* the envelope is a mapping with none of the four recognised fields
NoRecognisedField ==
    /\ IsDict(envelope)
    /\ ~HasKey(envelope, KeyItems) /\ ~HasKey(envelope, KeyRepositories)
    /\ ~HasKey(envelope, KeyContent) /\ ~HasKey(envelope, KeyData)

\* C7 (as stated): for an envelope that is the empty sequence, or a mapping
\* with none of the fields `items`, `repositories`, `content`, `data`,
\* extract_repos_from_response returns an empty sequence and the decoders
\* return absent.
C7_NothingRecognised ==
    (envelope = EmptyList \/ NoRecognisedField)
    => /\ repos_json # Pending => repos_json = Ok(EmptyList)
       /\ TextIs(PyNone)

\* no step of the resolution order applies to the envelope
NothingToFind ==
    /\ ~IsList(envelope)
    /\ IsDict(envelope) =>
           /\ ~HasListField(envelope, KeyItems) /\ ~HasListField(envelope, KeyRepositories)
           /\ ~HasListField(envelope, KeyContent) /\ ~HasListField(envelope, KeyData)

\* C8: extract_repos_from_response is total: for every envelope (mapping,
\* sequence, string, number, boolean or null) it returns a sequence and raises
\* nothing, and when no step applies the sequence is empty.
C8_RecordsTotal ==
    repos_json # Pending =>
        /\ IsOk(repos_json)
        /\ IsList(repos_json[2])
        /\ NothingToFind => repos_json = Ok(EmptyList)

\* C8 witness: the scan met an item whose text json.loads raises on, and the
\* function returned the empty sequence.
C8_Witness ==
    /\ \E i \in 1..Len(ScannedContent) :
           ItemTextOf(ScannedContent[i]) # Absent /\ ParsedOf(ScannedContent[i]) = Absent
    /\ repos_json = Ok(EmptyList)

\* C9: in step 4 a failing item does not abort the scan: when every item
\* before index k lacks `text`, has a text that fails to parse, or parses to a
\* value exposing no record list, and item k's text parses to a value exposing
\* a record list, extract_repos_from_response returns item k's record list.
C9_FailingItemSkipped ==
    repos_json # Pending =>
        \A k \in 1..Len(ScannedContent) :
            (/\ \A j \in 1..(k - 1) : YieldsNothing(ScannedContent[j])
             /\ ~YieldsNothing(ScannedContent[k]))
            => repos_json = Ok(ExposedRecords(ParsedOf(ScannedContent[k])))

\* C9 witness: the first item's text failed to parse and the record list of
\* the second item was returned.
C9_Witness ==
    /\ Len(ScannedContent) >= 2
    /\ ItemTextOf(ScannedContent[1]) # Absent
    /\ ParsedOf(ScannedContent[1]) = Absent
    /\ ~YieldsNothing(ScannedContent[2])
    /\ Len(ExposedRecords(ParsedOf(ScannedContent[2]))[2]) >= 1
    /\ repos_json = Ok(ExposedRecords(ParsedOf(ScannedContent[2])))

\* C10 (as stated): for a mapping envelope with no list-valued `items` or
\* `repositories`, whose `content` is missing, not a sequence, or a sequence
\* from which no item yields records, and whose `data` field is a sequence,
\* extract_repos_from_response returns that `data` sequence.
C10_DataReturned ==
    (/\ repos_json # Pending
     /\ NoItemsNoRepositories
     /\ \A i \in 1..Len(ScannedContent) : YieldsNothing(ScannedContent[i])
     /\ HasListField(envelope, KeyData))
    => repos_json = Ok(Get(envelope, KeyData))

\* C11: first match wins, in the order items, repositories, content, data:
\* for a mapping envelope, a list-valued `items` is returned whatever else
\* the envelope carries; failing that a list-valued `repositories`; failing
\* that the record list of the first item of a `content` sequence that
\* yields one; and a list-valued `data` is returned when `items`,
\* `repositories` and `content` are missing or present but not sequences.
C11_FirstMatchWins ==
    (repos_json # Pending /\ IsDict(envelope)) =>
        /\ HasListField(envelope, KeyItems) => repos_json = Ok(Get(envelope, KeyItems))
        /\ (~HasListField(envelope, KeyItems) /\ HasListField(envelope, KeyRepositories))
               => repos_json = Ok(Get(envelope, KeyRepositories))
        /\ \A k \in 1..Len(ScannedContent) :
               (/\ \A j \in 1..(k - 1) : YieldsNothing(ScannedContent[j])
                /\ ~YieldsNothing(ScannedContent[k]))
               => repos_json = Ok(ExposedRecords(ParsedOf(ScannedContent[k])))
        /\ (NoItemsNoRepositories /\ ~HasListField(envelope, KeyContent)
                /\ HasListField(envelope, KeyData))
               => repos_json = Ok(Get(envelope, KeyData))

\* C11 witness: the envelope carried an `items` field that is no sequence, a
\* list-valued `repositories`, a record-yielding `content` sequence and a
\* list-valued `data`, and `repositories` was returned.
C11_Witness ==
    /\ IsDict(envelope)
    /\ HasKey(envelope, KeyItems) /\ ~HasListField(envelope, KeyItems)
    /\ HasListField(envelope, KeyRepositories)
    /\ HasListField(envelope, KeyContent)
    /\ Len(Get(envelope, KeyContent)[2]) >= 1
    /\ ~YieldsNothing(Get(envelope, KeyContent)[2][1])
    /\ HasListField(envelope, KeyData)
    /\ repos_json = Ok(Get(envelope, KeyRepositories))

\* C12 (as stated): when the envelope is a mapping whose `content` is the
\* base64 text of the empty text, both decoders yield the empty string, not
\* absent, and the callers treat what they got as a found payload.
C12_EmptyIsFound ==
    (/\ IsDict(envelope) /\ HasKey(envelope, KeyContent)
     /\ Get(envelope, KeyContent) = PyStr(B64(<<>>)))
    => /\ TextIs(PyStr(<<>>))
       /\ file_content # Pending => FoundByCaller(file_content[2])
       /\ decoded_content # Pending => FoundByCaller(decoded_content[2])

\* the text is a str that parses as JSON neither as it is nor with its
\* newlines removed, and contains no heading marker
NotJsonNoHeading(text) ==
    /\ IsStr(text)
    /\ ~IsOk(json_loads(text))
    /\ ~IsOk(json_loads(CleanText(text)[2]))
    /\ ~HasHeadingMarker(text)

\* C13 (as stated): the pattern strategy looks only at the first item: when
\* the envelope is a mapping whose `content` is a sequence of items whose
\* texts are neither JSON nor headings, the first of them holding no
\* "content":"<BASE64>" pattern and a later one holding a pattern that
\* decodes, both decoders yield absent.
C13_PatternInFirstItemOnly ==
    (/\ Len(ContentItems) >= 2
     /\ \A i \in 1..Len(ContentItems) : NotJsonNoHeading(ItemTextOf(ContentItems[i]))
     /\ re_search_content(ItemTextOf(ContentItems[1])) = Ok(PyNone)
     /\ \E k \in 2..Len(ContentItems) : PatternDecodes(ItemTextOf(ContentItems[k])))
    => TextIs(PyNone)

\* the mapping the newline-stripped `text` of the item parses to, or Absent
CleanParsedOf(item) ==
    IF /\ IsStr(ItemTextOf(item))
       /\ IsOk(json_loads(CleanText(ItemTextOf(item))[2]))
       /\ IsDict(json_loads(CleanText(ItemTextOf(item))[2])[2])
    THEN json_loads(CleanText(ItemTextOf(item))[2])[2]
    ELSE Absent

\* the newline-stripped `text` of the item parses to a mapping with a
\* `content` field that base64-decodes to UTF-8 text
ItemDecodes(item) ==
    /\ CleanParsedOf(item) # Absent
    /\ HasKey(CleanParsedOf(item), KeyContent)
    /\ IsOk(b64decode_utf8(Get(CleanParsedOf(item), KeyContent)))

\* C14 (as stated): when the envelope is itself a sequence of content items,
\* both decoders return the base64-decoded `content` of the first item that
\* decodes, and absent when no item does; never an item's raw or
\* re-serialised text.
C14_ListOfItemsDecoding ==
    IsList(envelope) =>
        /\ \A k \in 1..Len(envelope[2]) :
               (/\ ItemDecodes(envelope[2][k])
                /\ \A j \in 1..(k - 1) : ~ItemDecodes(envelope[2][j]))
               => TextIs(b64decode_utf8(Get(CleanParsedOf(envelope[2][k]), KeyContent))[2])
        /\ (\A k \in 1..Len(envelope[2]) : ~ItemDecodes(envelope[2][k]))
               => TextIs(PyNone)

\* C17 (as stated): every element of a sequence returned by
\* extract_repos_from_response is a mapping, for every envelope.
C17_RecordsAreMappings ==
    (repos_json # Pending /\ IsOk(repos_json) /\ IsList(repos_json[2]))
        => \A i \in 1..Len(repos_json[2][2]) : IsDict(repos_json[2][2][i])

\* C18 (as stated): for every envelope, decoded_content of get_readme_content
\* and the value extract_file_content returns for a response list whose
\* result is that envelope are equal: both absent or both the same string.
C18_DecodersAgree ==
    (file_content # Pending /\ decoded_content # Pending)
        => file_content = decoded_content


\* the values json.loads gives for the lines of the text that are not blank
\* and are valid JSON, in the order of the lines
ValidLines(text) ==
    SelectSeq(str_split_lines(text, 1),
              LAMBDA line : /\ str_strip(line) # <<>>
                            /\ IsOk(json_loads(PyStr(str_strip(line)))))

ParsedLines(text) ==
    [i \in 1..Len(ValidLines(text)) |-> json_loads(PyStr(str_strip(ValidLines(text)[i])))[2]]

\* C15: when the server command succeeds, run_mcp_command returns exactly the
\* parsed values of the output lines that are not blank and are valid JSON,
\* in order; blank lines and lines that fail to parse are dropped one by one
\* and nothing is raised
C15_ResponsesAreTheValidLines ==
    (stdout # Pending /\ stdout[1] = 0) =>
        responses = Ok(PyList(ParsedLines(stdout[2])))


\* the response line is a mapping with a `result` field
CarriesResult(r) == IsDict(r) /\ HasKey(r, KeyResult)

\* the position of the first line of the responses that carries `result`,
\* 0 when there is none
FirstResultLine(rs) == FirstOf({i \in 1..Len(rs) : CarriesResult(rs[i])}, 0)

\* C16: the extractors work on the `result` of the first response line, in
\* output order, that carries one: lines before it are skipped, lines after
\* it are never consulted, and when no line carries `result` the caller
\* reports the response as unusable and extracts nothing
C16_FirstResultLineIsUsed ==
    (Len(requests) = 2 /\ IsOk(responses) /\ IsList(responses[2])) =>
        LET rs == responses[2][2]
            k == FirstResultLine(rs)
        IN  /\ requests[2] \in {StarsQuery, OrgQuery} =>
                IF k > 0
                THEN /\ envelope = Get(rs[k], KeyResult)
                     /\ repos_json = extract_repos_from_response(envelope)
                ELSE /\ report \in {"invalid", "failed"}
                     /\ repos_json = Pending
            /\ requests[2] = "get_file_contents" =>
                IF k > 0
                THEN file_content = FileContentOf(Get(rs[k], KeyResult))
                ELSE file_content = Ok(PyNone)


\* C19: list_org_repos sends the alternative `user:` query at most once, and
\* only right after a primary `org:` query whose output held a response line
\* with `result` from which no record was extracted; not after records were
\* found, not after the command failed, not when no line carried `result`
C19_AltQueryOnlyAfterEmpty ==
    [][(requests' # requests /\ requests'[Len(requests')] = AltQuery) =>
          /\ \A i \in 1..Len(requests) : requests[i] # AltQuery
          /\ requests[Len(requests)] = OrgQuery
          /\ stdout[1] = 0
          /\ IsOk(responses)
          /\ FirstResultLine(responses[2][2]) > 0
          /\ envelope = Get(responses[2][2][FirstResultLine(responses[2][2])], KeyResult)
          /\ repos_json = Ok(PyList(<<>>))]_vars

\* the alternative query was sent after a primary query that found nothing
C19_Witness ==
    /\ pc = "done"
    /\ requests = <<"tools/list", OrgQuery, AltQuery>>
    /\ repos_json = Ok(PyList(<<>>))


=============================================================================
